---- MODULE Spec2Model ----
(***************************************************************************)
(* A model of @litert/observable: the EventEmitter of                      *)
(* src/lib/Events (registration, removal, configuration and synchronous    *)
(* dispatch with once-cleanup and escalation to the "error" event), and    *)
(* the FilterManager of src/lib/Filters (registration by name and key, and *)
(* the asynchronous pipeline that filter runs over a value).               *)
(*                                                                         *)
(* emit runs user callbacks, and a callback may call back into the         *)
(* emitter, so a dispatch is a stack of frames, one per emit call in       *)
(* progress; the other operations call no user code and are one step each. *)
(* Array indices are the code's (0-based); ls[i + 1] is the code's ls[i].  *)
(***************************************************************************)
EXTENDS Integers, Sequences, FiniteSets, TLC

\* ---------------------------------------------------------------- bounds
\* Largest maxListeners a caller sets (the default is DefaultMaxListeners).
MaxLimit == 2
\* Calls of the emitter's API in one behaviour, at the top level and in
\* callbacks together.
MaxOps == 4
\* The same for the behaviours of NestedSpec, by kind: on and once, off, emit.
MaxRegs == 3
MaxOffs == 1
MaxEmits == 2
\* emit calls in progress that were made by callbacks.
MaxDepth == 1
\* Calls of the filter manager's API in one behaviour of FilterSpec.
MaxFilterCalls == 4
\* filter calls in progress at a time.
MaxRuns == 2

\* ---------------------------------------------------------------- values
Events == {"error", "x"}
Callbacks == {"f", "g"}
Payloads == {"p"}
Thrown == {"e1", "e2"}
Undefined == "undefined"

ConfigFields == {"interruptable", "continueOnError", "maxListeners"}

IConfiguration ==
    [interruptable : BOOLEAN, continueOnError : BOOLEAN, maxListeners : 0..MaxLimit]

\* Partial<IConfiguration>: a function on some of the fields.
PartialConfigs ==
    {[k \in {"interruptable"} |-> b] : b \in BOOLEAN}
        \cup {[k \in {"continueOnError"} |-> b] : b \in BOOLEAN}
        \cup {[k \in {"maxListeners"} |-> n] : n \in 0..MaxLimit}

DefaultMaxListeners == 10

DEFAULT_CONFIGURATION ==
    [interruptable |-> FALSE, continueOnError |-> FALSE,
     maxListeners |-> DefaultMaxListeners]

\* { ...base, ...partial }
Merge(base, partial) ==
    [k \in ConfigFields |-> IF k \in DOMAIN partial THEN partial[k] ELSE base[k]]

\* new ListenerInfo(callback, once). Two entries made by two calls are two
\* objects even when they hold the same callback: id tells them apart (the
\* number of the on/once call that made the entry).
ListenerInfo(callback, once, id) == [callback |-> callback, once |-> once, id |-> id]

NoListener == [callback |-> "none", once |-> FALSE, id |-> 0]

\* new EventInfo(config)
EventInfo(config) == [exists |-> TRUE, config |-> config, listeners |-> <<>>]

\* The slot of an event that has no record.
NoEvent == [exists |-> FALSE, config |-> DEFAULT_CONFIGURATION, listeners |-> <<>>]

\* Array.prototype.splice(i, 1) for i >= 0: past the end it removes nothing.
Splice(ls, i) ==
    IF i < Len(ls) THEN SubSeq(ls, 1, i) \o SubSeq(ls, i + 2, Len(ls)) ELSE ls

VARIABLES
    config,     \* this[P_CONFIG]
    slots,      \* this[P_EVENT_SLOTS]
    stack,      \* the emit calls in progress, innermost last
    pending,    \* what emit("error", e) handed back to the catch block that
                \* called it, until that block resumes
    last,       \* the last completed call: its arguments, the state it
                \* started from and what it returned or threw
    ops,        \* number of API calls made, by kind
    fired,      \* how often each once entry has been invoked, by id
    filters,    \* this._filters: for each name the object it holds
                \* (its place in heap), 0 for none
    heap,       \* the objects made by register: the properties of each,
                \* in the order of their creation
    runs,       \* the filter calls in progress
    flast,      \* the last completed call of the filter manager
    fops        \* number of calls of the filter manager made

emitterVars == <<config, slots, stack, pending, last, ops, fired>>

filterVars == <<filters, heap, runs, flast, fops>>

vars == <<emitterVars, filterVars>>

None == [kind |-> "none", val |-> Undefined]
Return(v) == [kind |-> "return", val |-> v]
Throw(v) == [kind |-> "throw", val |-> v]

NoCall == [op |-> "none"]

\* ------------------------------------------------------------ inspection
\* listeners(event)
Listeners(s, event) ==
    IF s[event].exists
        THEN [k \in 1..Len(s[event].listeners) |-> s[event].listeners[k].callback]
        ELSE <<>>

\* listenerCount(event)
ListenerCount(s, event) ==
    IF s[event].exists THEN Len(s[event].listeners) ELSE 0

\* hasListener(event, callback)
HasListener(s, event, callback) ==
    IF ~s[event].exists
        THEN FALSE
        ELSE Len(SelectSeq(s[event].listeners, LAMBDA x : x.callback = callback)) > 0

\* eventNames()
EventNames(s) == {e \in Events : s[e].exists}

\* LimitReached, off by one: the limit is found one listener late.
LimitReachedLate(ev) == ev.config.maxListeners + 1 = Len(ev.listeners)

\* ---------------------------------------------------------- registration
\* ev.config.maxListeners === ev.listeners.length
LimitReached(ev) == ev.config.maxListeners = Len(ev.listeners)

\* on (once = FALSE) and once (once = TRUE): the slot table afterwards and
\* what the call returns or throws.
Register(s, cfg, event, callback, once, id) ==
    LET ev == IF s[event].exists THEN s[event] ELSE EventInfo(cfg)
    IN  IF LimitReached(ev)
            THEN [slots |-> [s EXCEPT ![event] = ev],
                  ret |-> Throw("E_EXCEED_MAX_LISTENERS")]
            ELSE [slots |-> [s EXCEPT ![event] =
                                [ev EXCEPT !.listeners =
                                    Append(@, ListenerInfo(callback, once, id))]],
                  ret |-> Return("this")]

\* -------------------------------------------------------------- removal
\* The loop of off: for (i = 0; i < length; i++) if (match) splice(i--, 1).
RECURSIVE OffLoop(_, _, _)
OffLoop(ls, i, callback) ==
    IF i < Len(ls)
        THEN IF ls[i + 1].callback = callback
                 THEN OffLoop(Splice(ls, i), i, callback)
                 ELSE OffLoop(ls, i + 1, callback)
        ELSE ls

\* Unregister deleting the record it has emptied.
UnregisterDropsRecord(s, event, callback) ==
    IF ~s[event].exists
        THEN [slots |-> s, ret |-> Return(0)]
        ELSE LET kept == IF callback # Undefined
                             THEN OffLoop(s[event].listeners, 0, callback)
                             ELSE s[event].listeners
             IN  [slots |-> [s EXCEPT ![event] = NoEvent],
                  ret |-> Return(Len(kept))]

\* off(event, callback?): callback is Undefined when omitted.
Unregister(s, event, callback) ==
    IF ~s[event].exists
        THEN [slots |-> s, ret |-> Return(0)]
        ELSE LET kept == IF callback # Undefined
                             THEN OffLoop(s[event].listeners, 0, callback)
                             ELSE s[event].listeners
             IN  \* return ev.listeners.splice(0).length
                 [slots |-> [s EXCEPT ![event].listeners = <<>>],
                  ret |-> Return(Len(kept))]

\* ---------------------------------------------------------- configuration
\* Configure merging the partial configuration into every record.
ConfigureEveryRecord(s, cfg, event, partial) ==
    [e \in DOMAIN s |->
        IF s[e].exists
            THEN [s[e] EXCEPT !.config = Merge(@, partial)]
            ELSE IF e = event THEN EventInfo(Merge(cfg, partial)) ELSE s[e]]

\* Configure dropping the partial configuration.
ConfigureIgnoresPartial(s, cfg, event, partial) ==
    IF s[event].exists THEN s ELSE [s EXCEPT ![event] = EventInfo(cfg)]

\* configEvent(event, partial)
Configure(s, cfg, event, partial) ==
    IF s[event].exists
        THEN [s EXCEPT ![event].config = Merge(@, partial)]
        ELSE [s EXCEPT ![event] = EventInfo(Merge(cfg, partial))]

\* ---------------------------------------------------------------- calls
\* A call is made by the program (no dispatch in progress) or by the
\* callback that is running.
Top == stack[Len(stack)]

CanCall == IF stack = <<>> THEN TRUE ELSE Top.pc = "callback"

\* What a call made by a callback means to the dispatches in progress: a
\* dispatch whose listener array the call changed is no longer intact, and
\* one whose event the call emits is no longer alone. after is the slot
\* table the call leaves.
Touch(st, op, event, after) ==
    [k \in DOMAIN st |->
        [st[k] EXCEPT
            !.intact = @ /\ after[st[k].event].listeners
                                = slots[st[k].event].listeners,
            !.alone = @ /\ ~(op = "emit" /\ st[k].event = event)]]

\* The record of a completed call: arg is its second argument (a callback,
\* a partial configuration or the payload).
Call(op, event, arg, ret, after) ==
    [op |-> op, event |-> event, arg |-> arg, ret |-> ret,
     slots |-> slots, config |-> config, after |-> after,
     nested |-> stack # <<>>]

On(event, callback) ==
    /\ CanCall
    /\ LET r == Register(slots, config, event, callback, FALSE, ops["reg"] + 1)
       IN  /\ slots' = r.slots
           /\ last' = Call("on", event, callback, r.ret, r.slots)
    /\ stack' = Touch(stack, "on", event, slots')
    /\ ops' = [ops EXCEPT !["reg"] = @ + 1]
    /\ UNCHANGED <<config, pending>>

Once(event, callback) ==
    /\ CanCall
    /\ LET r == Register(slots, config, event, callback, TRUE, ops["reg"] + 1)
       IN  /\ slots' = r.slots
           /\ last' = Call("once", event, callback, r.ret, r.slots)
    /\ stack' = Touch(stack, "once", event, slots')
    /\ ops' = [ops EXCEPT !["reg"] = @ + 1]
    /\ UNCHANGED <<config, pending>>

Off(event, callback) ==
    /\ CanCall
    /\ LET r == Unregister(slots, event, callback)
       IN  /\ slots' = r.slots
           /\ last' = Call("off", event, callback, r.ret, r.slots)
    /\ stack' = Touch(stack, "off", event, slots')
    /\ ops' = [ops EXCEPT !["off"] = @ + 1]
    /\ UNCHANGED <<config, pending>>

ConfigEvent(event, partial) ==
    /\ CanCall
    /\ slots' = Configure(slots, config, event, partial)
    /\ last' = Call("configEvent", event, partial, Return("this"), slots')
    /\ stack' = Touch(stack, "configEvent", event, slots')
    /\ ops' = [ops EXCEPT !["cfg"] = @ + 1]
    /\ UNCHANGED <<config, pending>>

ConfigGlobal(partial) ==
    /\ CanCall
    /\ config' = Merge(config, partial)
    /\ last' = Call("configGlobal", Undefined, partial, Return("this"), slots)
    /\ stack' = Touch(stack, "configGlobal", Undefined, slots)
    /\ ops' = [ops EXCEPT !["cfg"] = @ + 1]
    /\ UNCHANGED <<slots, pending>>

\* ------------------------------------------------------------- dispatch
\* One emit call in progress. event, args, i, listener, INTERRUPTABLE and
\* CONTINUE_ON_ERROR are the code's locals; pc is where the call stands:
\* "callback" while listener.callback runs, "catch" while the catch block
\* waits for this.emit("error", e). The rest records what the call has
\* done: who made it, the listeners it started from, the entries it
\* invoked, the values its listeners threw (with the number of entries
\* invoked by then), the values it handed to emit("error"), whether
\* nothing but its own cleanup has changed the listener array of its event
\* while it ran (intact), and whether no callback has emitted its event
\* again while it ran (alone).
Frame(event, args, by) ==
    [event |-> event, args |-> args, i |-> 0, pc |-> "loop",
     listener |-> NoListener,
     INTERRUPTABLE |-> slots[event].config.interruptable,
     CONTINUE_ON_ERROR |-> slots[event].config.continueOnError,
     by |-> by, start |-> slots[event].listeners, invoked |-> <<>>,
     thrown |-> <<>>, escalated |-> <<>>, intact |-> TRUE, alone |-> TRUE]

\* NobodyListens taking a single listener for none.
NobodyListensOrOne(s, event) == ~s[event].exists \/ Len(s[event].listeners) <= 1

\* !ev || !ev.listeners.length
NobodyListens(s, event) == ~s[event].exists \/ Len(s[event].listeners) = 0

\* const listener = ev.listeners[i]; listener.callback.apply(this, args)
Invoke(f, ls) ==
    [f EXCEPT !.listener = ls[f.i + 1], !.pc = "callback",
              !.invoked = Append(@, ls[f.i + 1])]

\* INTERRUPTABLE && ret === false
Interrupts(interruptable, ret) == interruptable /\ ret = "false"

\* Rethrows without the test of the event name.
RethrowsNever(event) == FALSE

\* event === "error": the error of an "error" listener is thrown on.
Rethrows(event) == event = "error"

\* Escalation handing on the arguments of the emit call, not the error.
EscalationOfArgs(f, e) == f.args

\* The value handed to this.emit("error", e).
Escalation(f, e) == e

\* StopsOnError without the test of the flag.
StopsOnErrorAlways(continueOnError) == TRUE

\* !CONTINUE_ON_ERROR: the catch block returns true.
StopsOnError(continueOnError) == ~continueOnError

\* Finally without the i--: the entry after a removed one is skipped.
FinallyKeepsIndex(f, ls) ==
    IF f.listener.once
        THEN [listeners |-> Splice(ls, f.i), i |-> f.i]
        ELSE [listeners |-> ls, i |-> f.i]

\* Finally as a plain end of the try block, reached on a return only: a
\* once listener that threw stays.
FinallyOnReturnOnly(f, ls) ==
    IF f.listener.once /\ (f.thrown = <<>> \/ f.thrown[Len(f.thrown)].at # Len(f.invoked))
        THEN [listeners |-> Splice(ls, f.i), i |-> f.i - 1]
        ELSE [listeners |-> ls, i |-> f.i]

\* finally { if (listener.once) ev.listeners.splice(i--, 1) }: the array
\* and the index afterwards.
Finally(f, ls) ==
    IF f.listener.once
        THEN [listeners |-> Splice(ls, f.i), i |-> f.i - 1]
        ELSE [listeners |-> ls, i |-> f.i]

EmitRecord(f, exit, ret, ls) ==
    [op |-> "emit", event |-> f.event, arg |-> f.args, ret |-> ret,
     frame |-> f, exit |-> exit, after |-> ls, nested |-> f.by # "top"]

\* The emit call f returns or throws ret, its listeners being ls by then.
\* Only the catch block that made the call looks at the outcome.
Leave(f, ls, exit, ret) ==
    /\ slots' = [slots EXCEPT ![f.event].listeners = ls]
    /\ stack' = Touch(SubSeq(stack, 1, Len(stack) - 1), "cleanup", f.event, slots')
    /\ pending' = IF f.by = "catch" THEN ret ELSE None
    /\ last' = EmitRecord(f, exit, ret, ls)

\* i++ and the loop test: the next listener is invoked, or the loop ends
\* and emit returns true.
NextListener(f, ls) ==
    LET g == [f EXCEPT !.i = @ + 1]
    IN  IF g.i < Len(ls)
            THEN /\ slots' = [slots EXCEPT ![f.event].listeners = ls]
                 /\ stack' = Append(Touch(SubSeq(stack, 1, Len(stack) - 1),
                                           "cleanup", f.event, slots'),
                                     Invoke(g, ls))
                 /\ pending' = None
                 /\ UNCHANGED last
            ELSE Leave(g, ls, "end", Return(TRUE))

\* Frames of emit calls made by callbacks.
Depth(st) == Cardinality({k \in DOMAIN st : st[k].by = "callback"})

\* emit(event, ...args), called by the program or by the running callback.
Emit(event, args) ==
    /\ CanCall
    /\ IF stack = <<>> THEN TRUE ELSE Depth(stack) < MaxDepth
    /\ LET f == Frame(event, args, IF stack = <<>> THEN "top" ELSE "callback")
       IN  IF NobodyListens(slots, event)
               THEN /\ stack' = Touch(stack, "emit", event, slots)
                    /\ last' = EmitRecord(f, "nobody", Return(FALSE),
                                          slots[event].listeners)
               ELSE /\ stack' = Append(Touch(stack, "emit", event, slots),
                                       Invoke(f, slots[event].listeners))
                    /\ UNCHANGED last
    /\ ops' = [ops EXCEPT !["emit"] = @ + 1]
    /\ UNCHANGED <<config, slots, pending>>

\* The running callback returns ret (nothing, or false).
CallbackReturn(ret) ==
    /\ stack # <<>>
    /\ Top.pc = "callback"
    /\ LET f == Top
           fin == Finally(f, slots[f.event].listeners)
       IN  IF Interrupts(f.INTERRUPTABLE, ret)
               THEN Leave([f EXCEPT !.i = fin.i], fin.listeners,
                          "interrupt", Return(TRUE))
               ELSE NextListener([f EXCEPT !.i = fin.i], fin.listeners)
    /\ UNCHANGED <<config, ops>>

\* After the catch block's emit("error", e) returned: stop or go on.
AfterCatch(f) ==
    LET fin == Finally(f, slots[f.event].listeners)
    IN  IF StopsOnError(f.CONTINUE_ON_ERROR)
            THEN Leave([f EXCEPT !.i = fin.i], fin.listeners,
                       "stop", Return(TRUE))
            ELSE NextListener([f EXCEPT !.i = fin.i], fin.listeners)

\* The running callback throws e.
CallbackThrow(e) ==
    /\ stack # <<>>
    /\ Top.pc = "callback"
    /\ LET f == [Top EXCEPT !.thrown =
                    Append(@, [val |-> e, at |-> Len(Top.invoked)])]
       IN  IF Rethrows(f.event)
               THEN LET fin == Finally(f, slots[f.event].listeners)
                    IN  Leave([f EXCEPT !.i = fin.i], fin.listeners,
                              "rethrow", Throw(e))
               ELSE LET v == Escalation(f, e)
                        g == [f EXCEPT !.escalated = Append(@, v)]
                    IN  IF NobodyListens(slots, "error")
                            THEN AfterCatch(g)
                            ELSE /\ stack' =
                                      Append([stack EXCEPT ![Len(stack)] =
                                                 [g EXCEPT !.pc = "catch"]],
                                             Invoke(Frame("error", v, "catch"),
                                                    slots["error"].listeners))
                                 /\ UNCHANGED <<slots, pending, last>>
    /\ UNCHANGED <<config, ops>>

\* emit("error", e) is back in the catch block: what it threw goes on to
\* the caller of emit (after the finally block), otherwise the block ends.
ResumeCatch ==
    /\ stack # <<>>
    /\ Top.pc = "catch"
    /\ pending.kind # "none"
    /\ IF pending.kind = "throw"
           THEN LET fin == Finally(Top, slots[Top.event].listeners)
                IN  Leave([Top EXCEPT !.i = fin.i], fin.listeners,
                          "escalation", pending)
           ELSE AfterCatch(Top)
    /\ UNCHANGED <<config, ops>>

\* The step invokes a listener: a call has been pushed, or the running call
\* has gone on to its next listener.
Invocation ==
    /\ stack' # <<>>
    /\ stack'[Len(stack')].pc = "callback"
    /\ IF Len(stack') > Len(stack)
           THEN TRUE
           ELSE Len(stack'[Len(stack')].invoked) > Len(stack[Len(stack')].invoked)

\* The invocations of once entries are counted.
Count ==
    fired' = IF Invocation
                 THEN LET l == stack'[Len(stack')].listener
                      IN  IF ~l.once
                              THEN fired
                              ELSE IF l.id \in DOMAIN fired
                                       THEN [fired EXCEPT ![l.id] = @ + 1]
                                       ELSE fired @@ (l.id :> 1)
                 ELSE fired

\* ------------------------------------------------------- filter manager
FilterNames == {"n", "m"}
FilterKeys == {"a", "1", "2", "toString"}
FilterFns == {"f1", "f2"}
FilterValues == {"v"}
FilterResults == {"r1", "r2"}

\* The property names every object inherits from Object.prototype.
ObjectPrototype == {"toString"}

\* The array index a property name stands for, -1 when it stands for none.
ArrayIndex(key) == CASE key = "1" -> 1 [] key = "2" -> 2 [] OTHER -> 0 - 1

\* key in Object.getOwnPropertyNames(obj)
HasOwn(obj, key) == \E k \in DOMAIN obj : obj[k].key = key

\* obj[key]: the own property, else the inherited one, else undefined.
Get(obj, key) ==
    IF HasOwn(obj, key)
        THEN obj[CHOOSE k \in DOMAIN obj : obj[k].key = key].fn
        ELSE IF key \in ObjectPrototype THEN "inherited" ELSE Undefined

\* obj[key] = fn: a new property comes last.
Put(obj, key, fn) ==
    IF HasOwn(obj, key)
        THEN [k \in DOMAIN obj |-> IF obj[k].key = key THEN [obj[k] EXCEPT !.fn = fn]
                                                       ELSE obj[k]]
        ELSE Append(obj, [key |-> key, fn |-> fn])

\* delete obj[key]
Delete(obj, key) == SelectSeq(obj, LAMBDA p : p.key # key)

RECURSIVE Ascending(_)
Ascending(keys) ==
    IF keys = {}
        THEN <<>>
        ELSE LET k == CHOOSE k \in keys :
                          \A j \in keys : ArrayIndex(k) <= ArrayIndex(j)
             IN  <<k>> \o Ascending(keys \ {k})

\* The keys for (const key in obj) goes through: the array indices in
\* ascending order, then the other names in the order of their creation.
ForIn(obj) ==
    Ascending({obj[k].key : k \in {j \in DOMAIN obj : ArrayIndex(obj[j].key) >= 0}})
        \o SelectSeq([k \in DOMAIN obj |-> obj[k].key],
                     LAMBDA key : ArrayIndex(key) < 0)

\* The loop of register over the names, from the table fs and the objects
\* hp: the table and the objects afterwards, and what the call returns or
\* throws.
RECURSIVE register(_, _, _, _, _)
register(fs, hp, names, key, fn) ==
    IF names = <<>>
        THEN [filters |-> fs, heap |-> hp, ret |-> Return("this")]
        ELSE LET s == Head(names)
                 hp1 == IF fs[s] = 0 THEN Append(hp, <<>>) ELSE hp
                 fs1 == IF fs[s] = 0 THEN [fs EXCEPT ![s] = Len(hp1)] ELSE fs
             IN  IF Get(hp1[fs1[s]], key) # Undefined
                     THEN [filters |-> fs1, heap |-> hp1,
                           ret |-> Throw("E_DUP_FILTER_FUNCTION")]
                     ELSE register(fs1, [hp1 EXCEPT ![fs1[s]] = Put(@, key, fn)],
                                   Tail(names), key, fn)

\* unregister(name, key)
unregister(fs, hp, name, key) ==
    IF fs[name] = 0
        THEN [filters |-> fs, heap |-> hp]
        ELSE [filters |-> fs, heap |-> [hp EXCEPT ![fs[name]] = Delete(@, key)]]

\* unregisterAll(name)
unregisterAll(fs, hp, name) ==
    [filters |-> [fs EXCEPT ![name] = 0], heap |-> hp]

\* What a call of the manager means to the filter calls in progress: a
\* pipeline whose name the call has registered or unregistered anything
\* under is no longer intact.
TouchRuns(rs, fs, hp) ==
    [k \in DOMAIN rs |->
        [rs[k] EXCEPT !.intact = @ /\ fs[rs[k].name] = rs[k].obj
                                   /\ hp[rs[k].obj] = heap[rs[k].obj]]]

FilterRecord(op, name, key, fn, ret, after) ==
    [op |-> op, name |-> name, key |-> key, fn |-> fn, ret |-> ret,
     filters |-> filters, heap |-> heap,
     after |-> [filters |-> after.filters, heap |-> after.heap]]

\* register(name, key, callback), name being one name or an array of names.
FilterRegister(names, key, fn) ==
    /\ LET r == register(filters, heap, names, key, fn)
       IN  /\ filters' = r.filters
           /\ heap' = r.heap
           /\ flast' = FilterRecord("register", names, key, fn, r.ret, r)
    /\ runs' = TouchRuns(runs, filters', heap')
    /\ fops' = fops + 1

FilterUnregister(name, key) ==
    /\ LET r == unregister(filters, heap, name, key)
       IN  /\ filters' = r.filters
           /\ heap' = r.heap
           /\ flast' = FilterRecord("unregister", name, key, Undefined,
                                    Return("this"), r)
    /\ runs' = TouchRuns(runs, filters', heap')
    /\ fops' = fops + 1

FilterUnregisterAll(name) ==
    /\ LET r == unregisterAll(filters, heap, name)
       IN  /\ filters' = r.filters
           /\ heap' = r.heap
           /\ flast' = FilterRecord("unregisterAll", name, Undefined, Undefined,
                                    Return("this"), r)
    /\ runs' = TouchRuns(runs, filters', heap')
    /\ fops' = fops + 1

\* One filter call in progress. name, callbacks (obj, the object the call
\* found under the name), key and value are the code's locals; keys are the
\* names the for-in loop has still to go through and seen those it knew
\* when it began. fn and arg are the function that is running and the value
\* it was given. The rest records what the call has done: the properties
\* it started from, the functions it has called with the value each was
\* given and the result each gave, and whether nothing has been registered
\* or unregistered under its name while it ran (intact).
Run(name, value) ==
    [name |-> name, obj |-> filters[name], keys |-> ForIn(heap[filters[name]]),
     seen |-> {p.key : p \in {heap[filters[name]][k] :
                                 k \in DOMAIN heap[filters[name]]}},
     value |-> value, key |-> Undefined, fn |-> Undefined, arg |-> Undefined,
     given |-> value, start |-> heap[filters[name]], log |-> <<>>,
     intact |-> TRUE]

\* The properties added to the object of r since its loop began.
Added(r) == SelectSeq(ForIn(heap[r.obj]), LAMBDA key : key \notin r.seen)

\* The names the loop of r has still to go through: those of its list that
\* have not been deleted, and after them, when the enumeration takes up
\* the properties added since it began (late), those.
Remaining(r, late) ==
    SelectSeq(r.keys, LAMBDA key : HasOwn(heap[r.obj], key))
        \o (IF late THEN Added(r) ELSE <<>>)

\* const v = callbacks[key](value, ...args)
CallNext(r, late) ==
    LET todo == Remaining(r, late)
    IN  [r EXCEPT !.keys = Tail(todo), !.key = Head(todo),
                  !.seen = IF late THEN @ \cup {p.key : p \in {heap[r.obj][k] :
                                                   k \in DOMAIN heap[r.obj]}}
                                   ELSE @,
                  !.fn = Get(heap[r.obj], Head(todo)), !.arg = r.value]

FilterResult(r, ret) ==
    [op |-> "filter", name |-> r.name, ret |-> ret, run |-> r]

\* The loop test of the filter call r, the place i of runs being its place
\* (past the end for a call that begins): the next function is called, or
\* the loop is over and the call returns value.
Continue(r, i, late) ==
    /\ late => Added(r) # <<>>
    /\ IF Remaining(r, late) = <<>>
           THEN /\ runs' = SubSeq(runs, 1, i - 1) \o SubSeq(runs, i + 1, Len(runs))
                /\ flast' = FilterResult(r, Return(r.value))
           ELSE /\ runs' = SubSeq(runs, 1, i - 1) \o <<CallNext(r, late)>>
                               \o SubSeq(runs, i + 1, Len(runs))
                /\ UNCHANGED flast

\* filter(name, value): the call runs up to its first function.
FilterCall(name, value) ==
    /\ Len(runs) < MaxRuns
    /\ IF filters[name] = 0
           THEN /\ flast' = [op |-> "filter", name |-> name, ret |-> Return(value),
                             run |-> [given |-> value, start |-> <<>>,
                                      log |-> <<>>, intact |-> TRUE]]
                /\ UNCHANGED runs
           ELSE Continue(Run(name, value), Len(runs) + 1, FALSE)
    /\ fops' = fops + 1
    /\ UNCHANGED <<filters, heap>>

\* The function that the filter call at place i is waiting for gives ret
\* (it returns it, or the promise it returned is fulfilled with it).
FnReturn(i, ret, late) ==
    /\ i \in DOMAIN runs
    /\ LET r == runs[i]
       IN  Continue([r EXCEPT !.value = ret,
                              !.log = Append(@, [key |-> r.key, fn |-> r.fn,
                                                 arg |-> r.arg, ret |-> ret])],
                    i, late)
    /\ UNCHANGED <<filters, heap, fops>>

\* The function that the filter call at place i is waiting for throws e (or
\* the promise it returned is rejected with e): so is the promise of filter.
FnThrow(i, e) ==
    /\ i \in DOMAIN runs
    /\ runs' = SubSeq(runs, 1, i - 1) \o SubSeq(runs, i + 1, Len(runs))
    /\ flast' = FilterResult(runs[i], Throw(e))
    /\ UNCHANGED <<filters, heap, fops>>

\* ------------------------------------------------------------- behaviour
\* new EventEmitter(config?): { ...DEFAULT_CONFIGURATION, ...config }, the
\* argument being left out, or given with all its fields.
Init ==
    /\ config \in {Merge(DEFAULT_CONFIGURATION, c) : c \in IConfiguration \cup {<<>>}}
    /\ slots = [e \in Events |-> NoEvent]
    /\ stack = <<>>
    /\ pending = None
    /\ last = NoCall
    /\ ops = [k \in {"reg", "off", "cfg", "emit"} |-> 0]
    /\ fired = <<>>
    /\ filters = [n \in FilterNames |-> 0]
    /\ heap = <<>>
    /\ runs = <<>>
    /\ flast = NoCall
    /\ fops = 0

\* Calls made so far.
Total == ops["reg"] + ops["off"] + ops["cfg"] + ops["emit"]

\* A step of the emitter: the filter manager is another object.
EmitterStep == Count /\ UNCHANGED filterVars

Next ==
    \/ \E e \in Events, cb \in Callbacks : Total < MaxOps /\ On(e, cb) /\ EmitterStep
    \/ \E e \in Events, cb \in Callbacks : Total < MaxOps /\ Once(e, cb) /\ EmitterStep
    \/ \E e \in Events, cb \in Callbacks \cup {Undefined} :
          Total < MaxOps /\ Off(e, cb) /\ EmitterStep
    \/ \E e \in Events, c \in PartialConfigs : Total < MaxOps /\ ConfigEvent(e, c) /\ EmitterStep
    \/ \E c \in PartialConfigs : Total < MaxOps /\ ConfigGlobal(c) /\ EmitterStep
    \/ \E e \in Events, a \in Payloads : Total < MaxOps /\ Emit(e, a) /\ EmitterStep
    \/ \E r \in {Undefined, "false"} : CallbackReturn(r) /\ EmitterStep
    \/ \E e \in Thrown : CallbackThrow(e) /\ EmitterStep
    \/ ResumeCatch /\ EmitterStep

Spec == Init /\ [][Next]_vars

\* Programs that use the event "x" alone and leave the configuration as
\* constructed, with room for callbacks that call the emitter.
NestedNext ==
    \/ \E cb \in Callbacks : ops["reg"] < MaxRegs /\ On("x", cb) /\ EmitterStep
    \/ \E cb \in Callbacks : ops["reg"] < MaxRegs /\ Once("x", cb) /\ EmitterStep
    \/ \E cb \in Callbacks \cup {Undefined} : ops["off"] < MaxOffs /\ Off("x", cb) /\ EmitterStep
    \/ \E a \in Payloads : ops["emit"] < MaxEmits /\ Emit("x", a) /\ EmitterStep
    \/ \E r \in {Undefined, "false"} : CallbackReturn(r) /\ EmitterStep
    \/ \E e \in Thrown : CallbackThrow(e) /\ EmitterStep

NestedSpec == Init /\ [][NestedNext]_vars

\* createFilterManager(), next to an emitter made without arguments.
FilterInit == Init /\ config = DEFAULT_CONFIGURATION

\* Programs that use the filter manager.
FilterNext ==
    \/ \E names \in {<<"n">>, <<"m">>, <<"n", "m">>}, key \in FilterKeys, fn \in FilterFns :
          fops < MaxFilterCalls /\ FilterRegister(names, key, fn)
                                /\ UNCHANGED emitterVars
    \/ \E name \in FilterNames, key \in FilterKeys :
          fops < MaxFilterCalls /\ FilterUnregister(name, key)
                                /\ UNCHANGED emitterVars
    \/ \E name \in FilterNames :
          fops < MaxFilterCalls /\ FilterUnregisterAll(name)
                                /\ UNCHANGED emitterVars
    \/ \E name \in FilterNames, value \in FilterValues :
          fops < MaxFilterCalls /\ FilterCall(name, value)
                                /\ UNCHANGED emitterVars
    \/ \E i \in 1..MaxRuns, ret \in FilterResults, late \in BOOLEAN :
          FnReturn(i, ret, late) /\ UNCHANGED emitterVars
    \/ \E i \in 1..MaxRuns, e \in Thrown :
          FnThrow(i, e) /\ UNCHANGED emitterVars

FilterSpec == FilterInit /\ [][FilterNext]_vars

\* ---------------------------------------------------------------- claims
Range(q) == {q[k] : k \in DOMAIN q}

Emitted == last.op = "emit" /\ last.exit # "nobody"

\* C1: an emit of an event with N >= 1 listeners, none of which throws,
\* interrupts or changes the listeners of the event, invokes each of the N
\* entries once, in the order of registration, and returns true.
C1_EmitInvokesAllInOrder ==
    (/\ Emitted
     /\ last.frame.intact
     /\ last.frame.thrown = <<>>
     /\ last.exit # "interrupt") =>
        /\ last.frame.invoked = last.frame.start
        /\ last.ret.kind = "return" /\ last.ret.val = TRUE

C1_Witness ==
    /\ Emitted
    /\ last.frame.intact
    /\ last.frame.thrown = <<>>
    /\ last.exit = "end"
    /\ Len(last.frame.start) = 2
    /\ last.frame.start[1].once
    /\ last.frame.start[1].callback # last.frame.start[2].callback
    /\ last.frame.invoked = last.frame.start

StoppedAtThrow(f) ==
    /\ Len(f.thrown) = 1
    /\ Len(f.invoked) = f.thrown[1].at
    /\ f.escalated = <<f.thrown[1].val>>

\* C3 as stated, for every event: with continueOnError = false, a throw
\* skips the listeners after it, emits "error" once with the thrown value,
\* and emit returns true.
C3_Original ==
    (Emitted /\ ~last.frame.CONTINUE_ON_ERROR /\ last.frame.thrown # <<>>) =>
        /\ StoppedAtThrow(last.frame)
        /\ last.ret.kind = "return" /\ last.ret.val = TRUE

\* C3, amended: with continueOnError = false on an event other than "error",
\* a throw skips the listeners after it and emits "error" once with the
\* thrown value; emit then returns true, unless an "error" listener threw,
\* whose error emit throws on. On the "error" event the throw is not
\* emitted as "error": emit throws it.
C3_ThrowStopsDispatch ==
    (Emitted /\ ~last.frame.CONTINUE_ON_ERROR /\ last.frame.thrown # <<>>) =>
        IF last.event # "error"
            THEN /\ StoppedAtThrow(last.frame)
                 /\ \/ /\ last.exit = "stop"
                       /\ last.ret.kind = "return" /\ last.ret.val = TRUE
                    \/ /\ last.exit = "escalation"
                       /\ last.ret.kind = "throw"
            ELSE /\ Len(last.frame.thrown) = 1
                 /\ Len(last.frame.invoked) = last.frame.thrown[1].at
                 /\ last.frame.escalated = <<>>
                 /\ last.ret = Throw(last.frame.thrown[1].val)

C3_Witness ==
    /\ Emitted
    /\ last.event = "x"
    /\ ~last.frame.CONTINUE_ON_ERROR
    /\ last.exit = "stop"
    /\ Len(last.frame.start) = 2
    /\ Len(last.frame.invoked) = 1
    /\ last.frame.escalated = <<"e2">>
    /\ slots["error"].listeners # <<>>
    /\ last.ret.val = TRUE

\* C4 as stated, for every event and whatever the "error" listeners do:
\* with continueOnError = true, the listeners after a throwing one are
\* invoked all the same.
C4_Original ==
    (/\ Emitted
     /\ last.frame.CONTINUE_ON_ERROR
     /\ last.frame.thrown # <<>>
     /\ last.frame.intact
     /\ last.exit # "interrupt") =>
        last.frame.invoked = last.frame.start

\* C4, amended: with continueOnError = true on an event other than "error",
\* the listeners after a throwing one are invoked all the same, as long as
\* emit("error", e) does not throw; the throw of an "error" listener ends
\* the dispatch.
C4_ContinueOnError ==
    (/\ Emitted
     /\ last.frame.CONTINUE_ON_ERROR
     /\ last.frame.thrown # <<>>
     /\ last.event # "error"
     /\ last.exit \notin {"interrupt", "escalation"}) =>
        /\ last.exit = "end"
        /\ last.frame.intact => last.frame.invoked = last.frame.start

C4_Witness ==
    /\ Emitted
    /\ last.frame.CONTINUE_ON_ERROR
    /\ last.event = "x"
    /\ last.frame.intact
    /\ Len(last.frame.start) = 2
    /\ Len(last.frame.thrown) = 1
    /\ last.frame.thrown[1].at = 1
    /\ last.frame.invoked = last.frame.start
    /\ last.exit = "end"

\* C5: the error of a listener of another event than "error" is caught and
\* handed to emit("error", e); the error of an "error" listener is never
\* emitted as "error" again: emit throws it, and so does the emit whose
\* catch block was waiting. An escalation is one level deep.
C5_EscalationOneLevel ==
    /\ \A k \in DOMAIN stack :
          /\ stack[k].event = "error" =>
                stack[k].escalated = <<>> /\ stack[k].pc # "catch"
          /\ stack[k].pc = "catch" =>
                /\ stack[k].escalated # <<>>
                /\ Len(stack[k].escalated) = Len(stack[k].thrown)
                /\ k < Len(stack) =>
                      /\ stack[k + 1].event = "error"
                      /\ stack[k + 1].by = "catch"
                      /\ stack[k + 1].args = stack[k].thrown[Len(stack[k].thrown)].val
                /\ k = Len(stack) => pending.kind # "none"
          /\ stack[k].by = "catch" => k > 1 /\ stack[k - 1].pc = "catch"
    /\ (stack # <<>> /\ pending.kind = "throw") =>
          /\ Top.pc = "catch"
          /\ last.op = "emit" /\ last.event = "error" /\ last.exit = "rethrow"
          /\ last.ret = pending
    /\ Emitted =>
          /\ last.event = "error" =>
                /\ last.frame.escalated = <<>>
                /\ last.frame.thrown # <<>> =>
                      /\ last.exit = "rethrow"
                      /\ last.ret = Throw(last.frame.thrown[1].val)
          /\ last.event # "error" =>
                /\ last.frame.escalated =
                      [k \in DOMAIN last.frame.thrown |-> last.frame.thrown[k].val]
                /\ last.ret.kind = "throw" => last.exit = "escalation"

C5_Witness ==
    /\ Emitted
    /\ last.event = "x"
    /\ last.exit = "escalation"
    /\ last.frame.escalated = <<"e1">>
    /\ last.ret = Throw("e2")

\* C6: with interruptable = true, when a listener returns false the
\* listeners after it are not invoked in that emit call, emit returns true,
\* and the interrupting listener, when it is a once listener, is removed.
C6_InterruptStopsDispatch ==
    (Emitted /\ last.exit = "interrupt") =>
        /\ last.frame.INTERRUPTABLE
        /\ last.ret.kind = "return" /\ last.ret.val = TRUE
        /\ last.frame.intact =>
              last.frame.invoked = SubSeq(last.frame.start, 1, Len(last.frame.invoked))
        /\ last.frame.listener.once => last.frame.listener \notin Range(last.after)

\* C6 for the dispatches during which the event is not emitted again.
C6_InterruptAlone ==
    (Emitted /\ last.frame.alone) => C6_InterruptStopsDispatch

\* C7: off(event, callback) removes the entries of that callback and no
\* other: the rest stays, in its order.
C7_OffRemovesOnlyMatching ==
    (last.op = "off" /\ last.arg # Undefined) =>
        last.after[last.event].listeners =
            SelectSeq(last.slots[last.event].listeners,
                      LAMBDA x : x.callback # last.arg)

\* C8: off returns the number of listeners it removed: listenerCount before
\* the call minus listenerCount after it.
C8_OffReturnsRemoved ==
    last.op = "off" =>
        last.ret.val = ListenerCount(last.slots, last.event)
                           - ListenerCount(last.after, last.event)

\* C9: for a callback cb that is not registered on the event, on(event, cb)
\* then off(event, cb) leaves hasListener(event, cb) false and
\* listenerCount(event) as it was before the on.
C9_OnOffRoundTrip ==
    \A e \in Events, cb \in Callbacks :
        LET on == Register(slots, config, e, cb, FALSE, ops["reg"] + 1)
            off == Unregister(on.slots, e, cb)
        IN  (~HasListener(slots, e, cb) /\ on.ret.kind = "return") =>
                /\ ~HasListener(off.slots, e, cb)
                /\ ListenerCount(off.slots, e) = ListenerCount(slots, e)

\* C10: an on or once call made while listenerCount < maxListeners succeeds
\* and adds one listener; made when listenerCount = maxListeners it fails
\* with the listener-limit error and listenerCount stays.
C10_ListenerLimit ==
    last.op \in {"on", "once"} =>
        LET n == ListenerCount(last.slots, last.event)
            m == ListenerCount(last.after, last.event)
            max == IF last.slots[last.event].exists
                       THEN last.slots[last.event].config.maxListeners
                       ELSE last.config.maxListeners
        IN  /\ n < max => last.ret = Return("this") /\ m = n + 1
            /\ n = max => last.ret = Throw("E_EXCEED_MAX_LISTENERS") /\ m = n

C10_Witness ==
    /\ last.op = "once"
    /\ last.ret.kind = "throw"
    /\ ListenerCount(last.slots, last.event) = 2
    /\ last.slots[last.event].config.maxListeners = 2
    /\ ListenerCount(last.after, last.event) = 2

\* C11: maxListeners is an upper bound at the moment a listener is added:
\* after an on or once call that added a listener, whatever calls were made
\* before (configEvent lowering the limit included), the event has no more
\* listeners than its config.maxListeners.
C11_LimitIsUpperBound ==
    (last.op \in {"on", "once"} /\ last.ret.kind = "return") =>
        ListenerCount(last.after, last.event)
            <= last.after[last.event].config.maxListeners

\* C12: an on or once call that fails with the listener-limit error changes
\* nothing: eventNames(), the listeners of every event and every config are
\* what they were before the call, also when the event had no record.
C12_FailedRegistrationNoMutation ==
    (last.op \in {"on", "once"} /\ last.ret.kind = "throw") =>
        /\ EventNames(last.after) = EventNames(last.slots)
        /\ last.after = last.slots
        /\ config = last.config

\* C13: emit returns false exactly when the event has no record or no
\* listener at the time of the call, and then it invokes no callback and
\* changes no state of the emitter; an emit that found a listener invokes
\* one, and when it returns, it returns true, also after a throw or an
\* interrupt.
C13_EmitFalseIffNobody ==
    /\ [](last.op = "emit" =>
            /\ last.exit = "nobody" <=> last.frame.start = <<>>
            /\ last.exit = "nobody" =>
                  /\ last.ret.kind = "return" /\ last.ret.val = FALSE
                  /\ last.frame.invoked = <<>>
            /\ last.exit # "nobody" =>
                  /\ Len(last.frame.invoked) >= 1
                  /\ last.ret.kind = "return" => last.ret.val = TRUE)
    /\ [][ops'["emit"] # ops["emit"] =>
            IF Len(stack') > Len(stack)
                THEN LET f == stack'[Len(stack')]
                     IN  /\ slots[f.event].exists
                         /\ slots[f.event].listeners # <<>>
                         /\ f.invoked = <<slots[f.event].listeners[1]>>
                ELSE /\ last'.op = "emit"
                     /\ ~slots[last'.event].exists
                            \/ slots[last'.event].listeners = <<>>
                     /\ last'.ret.kind = "return" /\ last'.ret.val = FALSE
                     /\ slots' = slots /\ config' = config
                     /\ \A k \in DOMAIN stack :
                            stack'[k].invoked = stack[k].invoked]_vars

C13_Witness ==
    /\ last.op = "emit"
    /\ last.exit = "nobody"
    /\ slots[last.event].exists
    /\ last.ret.val = FALSE
    /\ stack # <<>>
    /\ Top.event = last.event

\* C14: a configEvent(partial) on the global config leaves the config (and
\* the rest) of every record as it is, records made by on and once
\* included, which hold the global config of the time they were made; a
\* configEvent(event, partial) leaves the global config and the records of
\* the other events as they are.
C14_ConfigsIndependent ==
    /\ []((last.op \in {"on", "once"} /\ ~last.slots[last.event].exists) =>
            last.after[last.event].config = last.config)
    /\ [][ops'["cfg"] # ops["cfg"] =>
            IF last'.op = "configGlobal"
                THEN slots' = slots
                ELSE /\ last'.op = "configEvent"
                     /\ config' = config
                     /\ \A e \in Events \ {last'.event} : slots'[e] = slots[e]
                     /\ slots'[last'.event].listeners
                            = slots[last'.event].listeners]_vars

C14_Witness ==
    /\ last.op = "configGlobal"
    /\ DOMAIN last.arg = {"maxListeners"}
    /\ config.maxListeners = 1
    /\ last.config.maxListeners = 2
    /\ slots["x"].exists
    /\ Len(slots["x"].listeners) = 2
    /\ slots["x"].config.maxListeners = 2

\* n calls of on(event, "f") in a row: the slot table afterwards and how
\* each call ended.
RECURSIVE OnTimes(_, _, _, _)
OnTimes(s, cfg, event, n) ==
    IF n = 0
        THEN [slots |-> s, rets |-> <<>>]
        ELSE LET p == OnTimes(s, cfg, event, n - 1)
                 r == Register(p.slots, cfg, event, "f", FALSE, 0)
             IN  [slots |-> r.slots, rets |-> Append(p.rets, r.ret.kind)]

\* C15: configEvent(event, partial) makes the config of the event its
\* config before the call (the global config when it had no record) with
\* the fields of partial put over it, and on then goes by the limit of the
\* event, not by the global one: whatever the global config, after
\* configEvent(event, {maxListeners: m}) on an event without listeners, m
\* calls of on succeed and the next one fails.
C15_EventLimitEnforced ==
    /\ last.op = "configEvent" =>
          /\ last.after[last.event].exists
          /\ last.after[last.event].config =
                Merge(IF last.slots[last.event].exists
                          THEN last.slots[last.event].config
                          ELSE last.config,
                      last.arg)
          /\ last.after[last.event].listeners = last.slots[last.event].listeners
    /\ \A e \in Events, m \in 0..MaxLimit :
          ListenerCount(slots, e) = 0 =>
              LET s == Configure(slots, config, e, [k \in {"maxListeners"} |-> m])
              IN  OnTimes(s, config, e, m + 1).rets =
                      [k \in 1..(m + 1) |-> IF k <= m THEN "return" ELSE "throw"]

C15_Witness ==
    /\ last.op = "on"
    /\ last.ret.kind = "throw"
    /\ last.config.maxListeners = 0
    /\ last.slots[last.event].config.maxListeners = 1
    /\ Len(last.slots[last.event].listeners) = 1
    /\ last.after = last.slots

\* C20: records are made by on, once and configEvent(event, ...) alone and
\* are never deleted: no step takes a name out of eventNames() (off and the
\* removal of a once listener leave the empty record), and a step that
\* adds a name is one of those three calls, adding the name of its event.
C20_RecordsPersist ==
    [][/\ EventNames(slots) \subseteq EventNames(slots')
       /\ EventNames(slots') # EventNames(slots) =>
             /\ ops'["reg"] # ops["reg"] \/ ops'["cfg"] # ops["cfg"]
             /\ last'.op \in {"on", "once", "configEvent"}
             /\ EventNames(slots') = EventNames(slots) \cup {last'.event}]_vars

C20_Witness ==
    /\ last.op = "off"
    /\ last.slots[last.event].listeners # <<>>
    /\ slots[last.event].exists
    /\ slots[last.event].listeners = <<>>
    /\ EventNames(slots) = Events

\* C18: a once entry is invoked at most once as long as it exists, whatever
\* emits are made, those made by a callback during a dispatch of the same
\* event included.
C18_OnceInvokedAtMostOnce ==
    \A id \in DOMAIN fired : fired[id] <= 1

\* The finally block of the running emit call runs in this step: the call
\* ends, or it goes on to its next listener.
Cleanup ==
    /\ stack # <<>>
    /\ Top.pc \in {"callback", "catch"}
    /\ IF Len(stack') < Len(stack)
           THEN TRUE
           ELSE /\ Len(stack') = Len(stack)
                /\ Len(stack'[Len(stack')].invoked) > Len(Top.invoked)

\* C19: the dispatch is index-safe whatever the invoked callback did to
\* the listeners of the event: what emit removes after an invocation is the
\* once entry it has just invoked and nothing else (no entry when the
\* invoked one is not a once entry or is gone already), the listener it
\* invokes next was not invoked by it before and is the one behind the
\* invoked entry, and the loop ends after the last entry only.
C19_DispatchIndexSafe ==
    [][Cleanup =>
        LET f == Top
            ls == slots[f.event].listeners
            here == {k \in DOMAIN ls : ls[k] = f.listener}
        IN  /\ slots'[f.event].listeners =
                  IF f.listener.once
                      THEN SelectSeq(ls, LAMBDA x : x # f.listener)
                      ELSE ls
            /\ Len(stack') = Len(stack) =>
                  LET l == stack'[Len(stack')].listener
                  IN  /\ l \notin Range(f.invoked)
                      /\ \A k \in here : k < Len(ls) /\ l = ls[k + 1]
            /\ (Len(stack') < Len(stack) /\ last'.exit = "end") =>
                  \A k \in here : k = Len(ls)]_vars

\* The functions a completed filter call has called, as properties.
Called(r) == [k \in DOMAIN r.log |-> [key |-> r.log[k].key, fn |-> r.log[k].fn]]

\* Each function of the filter call r was given the result of the one
\* before it (the first one the value of the call), no function was
\* running while another was, and the call returned the last result (the
\* value of the call when it called no function).
Chained(r, ret) ==
    /\ \A k \in DOMAIN r.log :
          r.log[k].arg = IF k = 1 THEN r.given ELSE r.log[k - 1].ret
    /\ ret.kind = "return"
    /\ ret.val = IF r.log = <<>> THEN r.given ELSE r.log[Len(r.log)].ret

\* The filter calls in progress wait for one function each, which was
\* called after the one before it had given its result, with that result.
OneAtATime ==
    \A i \in DOMAIN runs :
        /\ runs[i].fn \in FilterFns
        /\ runs[i].arg = IF runs[i].log = <<>>
                             THEN runs[i].given
                             ELSE runs[i].log[Len(runs[i].log)].ret

\* C16: filter(name, value) calls every function registered under name
\* once, in the order of registration, each one after the one before it
\* has completed and with the result of that one, and returns the last
\* result; with nothing registered under name it returns value. (For the
\* filter calls none of whose functions fails and during which nothing is
\* registered or unregistered under name.)
C16_FilterInRegistrationOrder ==
    /\ OneAtATime
    /\ (flast.op = "filter" /\ flast.ret.kind = "return" /\ flast.run.intact) =>
          /\ Called(flast.run) = flast.run.start
          /\ Chained(flast.run, flast.ret)
          /\ flast.run.start = <<>> => flast.ret.val = flast.run.given

\* C16 with the order of the for-in loop in the place of the order of
\* registration.
C16_FilterInForInOrder ==
    /\ OneAtATime
    /\ (flast.op = "filter" /\ flast.ret.kind = "return" /\ flast.run.intact) =>
          /\ [k \in DOMAIN flast.run.log |-> flast.run.log[k].key]
                = ForIn(flast.run.start)
          /\ \A k \in DOMAIN flast.run.log :
                flast.run.log[k].fn = Get(flast.run.start, flast.run.log[k].key)
          /\ Chained(flast.run, flast.ret)
          /\ flast.run.start = <<>> => flast.ret.val = flast.run.given

\* (name, key) is registered in the table fs with the objects hp.
Registered(fs, hp, name, key) ==
    IF fs[name] = 0 THEN FALSE ELSE HasOwn(hp[fs[name]], key)

\* The claim of C17 for the keys in K.
RegistrationExact(K) ==
    /\ (flast.op = "register" /\ flast.key \in K) =>
          LET dup == \E k \in DOMAIN flast.name :
                         Registered(flast.filters, flast.heap, flast.name[k], flast.key)
          IN  /\ flast.ret.kind = "throw" <=> dup
              /\ ~dup => \A k \in DOMAIN flast.name :
                    /\ Registered(flast.after.filters, flast.after.heap,
                                  flast.name[k], flast.key)
                    /\ Get(flast.after.heap[flast.after.filters[flast.name[k]]],
                           flast.key) = flast.fn
    /\ (/\ flast.op = "unregister"
        /\ flast.key \in K
        /\ ~Registered(flast.filters, flast.heap, flast.name, flast.key)) =>
          /\ flast.after.filters = flast.filters
          /\ flast.after.heap = flast.heap
    /\ (flast.op = "unregister" /\ flast.key \in K) =>
          register(flast.after.filters, flast.after.heap,
                   <<flast.name>>, flast.key, "f1").ret.kind = "return"
    /\ flast.op = "unregisterAll" =>
          \A key \in K :
              register(flast.after.filters, flast.after.heap,
                       <<flast.name>>, key, "f1").ret.kind = "return"

\* C17: register(name, key, fn) fails with the duplicate-registration error
\* exactly when (name, key) is registered, and stores fn otherwise;
\* unregister(name, key) of a pair that is not registered changes nothing;
\* after unregister(name, key) or unregisterAll(name) the pair can be
\* registered again.
C17_DuplicateRegistration == RegistrationExact(FilterKeys)

\* C17 for the keys that are not the name of a property of Object.prototype.
C17_KeysNotInherited == RegistrationExact(FilterKeys \ ObjectPrototype)

====
